---- MODULE Spec2Model ----
(***************************************************************************)
(* serde-stuff: field-level (de)serialization adapters.                    *)
(*                                                                         *)
(* Every adapter is a pure function between an in-memory value and a       *)
(* value node of the host document model (JSON).  The state machine below  *)
(* performs one adapter call per step: an input is chosen (a value to      *)
(* serialize, or a node arriving from the wire), then the adapter function *)
(* is applied to it, and a serialized node may be fed back to the          *)
(* deserializer.                                                           *)
(***************************************************************************)
EXTENDS Integers, Sequences, FiniteSets, TLC

VARIABLES pc, adapter, ty, attrs, src, val, wire, res, invoked

vars == <<pc, adapter, ty, attrs, src, val, wire, res, invoked>>

(***************************************************************************)
(* Bounds of the explored inputs.                                          *)
(***************************************************************************)
\* longest Vec<T> handed to a serializer
MaxVec == 3
\* longest array node arriving from the wire
MaxArr == 2
\* longest byte sequence handed to the base64 serializer
MaxBytes == 3
\* longest text handed to the base64 deserializer
MaxText == 4

(***************************************************************************)
(* Result and Option, as tagged tuples.                             *)
(***************************************************************************)
Ok(v) == <<"Ok", v>>
Err(e) == <<"Err", e>>
IsOk(r) == r[1] = "Ok"
IsErr(r) == r[1] = "Err"
None == <<"None">>
Some(v) == <<"Some", v>>
IsSome(o) == o[1] = "Some"

(***************************************************************************)
(* Value nodes of the document model: <<kind, payload>>.                   *)
(* A map node keeps its entries as a sequence of <<key, node>> pairs, in   *)
(* document order (a JSON object may repeat a key).                        *)
(***************************************************************************)
Null == <<"null", <<>>>>
Bool(b) == <<"bool", b>>
Num(n) == <<"num", n>>
Str(s) == <<"str", s>>
Arr(items) == <<"arr", items>>
Map(entries) == <<"map", entries>>
Kind(n) == n[1]
Payload(n) == n[2]
IsArr(n) == Kind(n) = "arr"

\* all sequences over S of length 0..n
SeqsUpTo(S, n) == UNION {[1..k -> S] : k \in 0..n}

(***************************************************************************)
(* Element types T the generic adapters are instantiated with.             *)
(*   "Inner"  : struct Inner { item: String }  (derive Serialize,          *)
(*              Deserialize), the element type of the repository's tests   *)
(*   "String" : a type whose encoding is a text node                       *)
(*   "VecU8"  : Vec<u8>, a type whose encoding is itself an array node     *)
(***************************************************************************)
ElemTypes == {"Inner", "String", "VecU8"}

Strings == {"a", "b"}
ByteVals == {7, 9}

Elems(T) ==
  CASE T = "Inner" -> {[item |-> s] : s \in Strings}
    [] T = "String" -> Strings
    [] T = "VecU8" -> SeqsUpTo(ByteVals, 2)

\* T::serialize: the encoding of one element by its own type
EncodeElem(T, e) ==
  CASE T = "Inner" -> Map(<< <<"item", Str(e.item)>> >>)
    [] T = "String" -> Str(e)
    [] T = "VecU8" -> Arr([i \in 1..Len(e) |-> Num(e[i])])

\* String::deserialize
DecodeString(n) ==
  IF Kind(n) = "str" THEN Ok(Payload(n)) ELSE Err("invalid type: expected a string")

\* u8::deserialize
DecodeU8(n) ==
  IF Kind(n) = "num" /\ Payload(n) \in 0..255 THEN Ok(Payload(n))
  ELSE Err("invalid type: expected u8")

\* the derived visit_map of struct Inner: keys other than "item" are ignored,
\* a second "item" is a duplicate field, no "item" is a missing field
InnerVisitMap(entries) ==
  LET idx == {i \in 1..Len(entries) : entries[i][1] = "item"}
  IN IF idx = {} THEN Err("missing field item")
     ELSE LET first == CHOOSE i \in idx : \A j \in idx : i <= j
          IN IF IsErr(DecodeString(entries[first][2]))
             THEN Err("invalid type: expected a string")
             ELSE IF Cardinality(idx) > 1 THEN Err("duplicate field item")
             ELSE Ok([item |-> Payload(entries[first][2])])

\* the derived visit_seq of struct Inner: exactly one element, a string
InnerVisitSeq(items) ==
  IF Len(items) = 0 THEN Err("invalid length 0")
  ELSE IF IsErr(DecodeString(items[1])) THEN Err("invalid type: expected a string")
  ELSE IF Len(items) > 1 THEN Err("invalid length: trailing elements")
  ELSE Ok([item |-> Payload(items[1])])

\* Inner::deserialize (deserialize_struct): a map or a sequence
DecodeInner(n) ==
  CASE Kind(n) = "map" -> InnerVisitMap(Payload(n))
    [] Kind(n) = "arr" -> InnerVisitSeq(Payload(n))
    [] OTHER -> Err("invalid type: expected struct Inner")

\* Vec<u8>::deserialize (deserialize_seq): an array of u8
DecodeVecU8(n) ==
  IF ~IsArr(n) THEN Err("invalid type: expected a sequence")
  ELSE IF \E i \in 1..Len(Payload(n)) : IsErr(DecodeU8(Payload(n)[i]))
       THEN Err("invalid type: expected u8")
  ELSE Ok([i \in 1..Len(Payload(n)) |-> DecodeU8(Payload(n)[i])[2]])

\* T::deserialize: the decoding of one element by its own type
DecodeElem(T, n) ==
  CASE T = "Inner" -> DecodeInner(n)
    [] T = "String" -> DecodeString(n)
    [] T = "VecU8" -> DecodeVecU8(n)

(***************************************************************************)
(* Nodes arriving from the wire.  SubNodes are the nodes an array may      *)
(* hold: every kind, well-formed and malformed encodings of each element   *)
(* type, and arrays (so that arrays of arrays arrive too).                 *)
(***************************************************************************)
SubNodes ==
  { Null, Bool(TRUE), Num(7), Num(300), Str("a"), Str("b"),
    Map(<<>>),
    Map(<< <<"item", Str("a")>> >>),
    Map(<< <<"item", Num(7)>> >>),
    Map(<< <<"other", Str("b")>>, <<"item", Str("a")>> >>),
    Map(<< <<"item", Str("a")>>, <<"item", Str("b")>> >>),
    Arr(<<>>), Arr(<<Num(7)>>), Arr(<<Num(9), Num(7)>>), Arr(<<Str("a")>>),
    Arr(<<Str("a"), Str("b")>>) }

Nodes == SubNodes \cup {Arr(s) : s \in SeqsUpTo(SubNodes, MaxArr)}

\* the values of Vec<T> handed to a serializer
Vecs(T) == SeqsUpTo(Elems(T), MaxVec)

(***************************************************************************)
(* vec_or_one                                                              *)
(***************************************************************************)

\* Vec<T>::deserialize leniently treating a node that is no array as empty
DecodeVec_Lenient(T, n) ==
  IF ~IsArr(n) THEN Ok(<<>>)
  ELSE IF \E i \in 1..Len(Payload(n)) : IsErr(DecodeElem(T, Payload(n)[i]))
       THEN Err("invalid element")
  ELSE Ok([i \in 1..Len(Payload(n)) |-> DecodeElem(T, Payload(n)[i])[2]])

\* Vec<T>::deserialize collecting the elements in reverse
DecodeVec_Reversed(T, n) ==
  IF ~IsArr(n) THEN Err("invalid type: expected a sequence")
  ELSE IF \E i \in 1..Len(Payload(n)) : IsErr(DecodeElem(T, Payload(n)[i]))
       THEN Err("invalid element")
  ELSE Ok([i \in 1..Len(Payload(n)) |->
             DecodeElem(T, Payload(n)[Len(Payload(n)) + 1 - i])[2]])

\* Vec<T>::deserialize skipping the elements that fail to decode
DecodeVec_SkipBad(T, n) ==
  IF ~IsArr(n) THEN Err("invalid type: expected a sequence")
  ELSE LET F[i \in 0..Len(Payload(n))] ==
             IF i = 0 THEN <<>>
             ELSE IF IsOk(DecodeElem(T, Payload(n)[i]))
                  THEN Append(F[i - 1], DecodeElem(T, Payload(n)[i])[2])
                  ELSE F[i - 1]
       IN Ok(F[Len(Payload(n))])

\* The Vec(Vec<T>) variant: Vec<T>::deserialize on the buffered content.
\* Only an array node is a sequence; every sub-node must decode as T.
DecodeVec(T, n) ==
  IF ~IsArr(n) THEN Err("invalid type: expected a sequence")
  ELSE IF \E i \in 1..Len(Payload(n)) : IsErr(DecodeElem(T, Payload(n)[i]))
       THEN Err("invalid element")
  ELSE Ok([i \in 1..Len(Payload(n)) |-> DecodeElem(T, Payload(n)[i])[2]])

\* #[serde(untagged)] enum VecOrOne<T> { Vec(Vec<T>), One(T) }:
\* the variants are tried in declaration order on the buffered node
VecOrOne(T, n) ==
  IF IsOk(DecodeVec(T, n)) THEN Ok(<<"Vec", DecodeVec(T, n)[2]>>)
  ELSE IF IsOk(DecodeElem(T, n)) THEN Ok(<<"One", DecodeElem(T, n)[2]>>)
  ELSE Err("data did not match any variant of untagged enum VecOrOne")

\* deserialize without the One arm: a bare element is rejected
VecOrOne_deserialize_OnlyVec(T, n) ==
  IF IsErr(VecOrOne(T, n)) THEN VecOrOne(T, n)
  ELSE IF VecOrOne(T, n)[2][1] = "Vec" THEN Ok(VecOrOne(T, n)[2][2])
  ELSE Err("expected a sequence")

\* vec_or_one::deserialize
VecOrOne_deserialize(T, n) ==
  IF IsErr(VecOrOne(T, n)) THEN VecOrOne(T, n)
  ELSE IF VecOrOne(T, n)[2][1] = "Vec" THEN Ok(VecOrOne(T, n)[2][2])
  ELSE Ok(<<VecOrOne(T, n)[2][2]>>)

\* serialize that never collapses: always Vec::<T>::serialize
VecOrOne_serialize_NoCollapse(T, v) ==
  Ok(Arr([i \in 1..Len(v) |-> EncodeElem(T, v[i])]))

\* serialize whose match arms are 0 => array, _ => first element
VecOrOne_serialize_FirstOnly(T, v) ==
  IF Len(v) = 0 THEN Ok(Arr(<<>>)) ELSE Ok(EncodeElem(T, v[1]))

\* vec_or_one::serialize
VecOrOne_serialize(T, v) ==
  IF Len(v) = 1 THEN Ok(EncodeElem(T, v[1]))
  ELSE Ok(Arr([i \in 1..Len(v) |-> EncodeElem(T, v[i])]))

(***************************************************************************)
(* option_vec_or_one, and the struct Outer that holds the field            *)
(*     items: Option<Vec<T>>                                               *)
(* under a serde attribute naming the adapter.                             *)
(***************************************************************************)

\* the field attributes found in the repository: the module example
\* (default), the tests (default, skip_serializing_if = "Option::is_none"),
\* and the declaration the USE DEFAULT note warns about (neither)
FieldAttrs ==
  { [default |-> TRUE, skip_serializing_if |-> FALSE],
    [default |-> TRUE, skip_serializing_if |-> TRUE],
    [default |-> FALSE, skip_serializing_if |-> FALSE] }

\* the values of Option<Vec<T>>
OptVecs(T) == {None} \cup {Some(v) : v \in Vecs(T)}

\* the parent objects arriving from the wire: without the key, or with one
\* node under it
OuterNodes == {Map(<<>>)} \cup {Map(<< <<"items", n>> >>) : n \in Nodes}

\* visit_some turning a failed decode into None
OptionVecOrOne_deserialize_Swallow(T, n) ==
  IF Kind(n) = "null" THEN Ok(None)
  ELSE IF IsOk(VecOrOne_deserialize(T, n))
       THEN Ok(Some(VecOrOne_deserialize(T, n)[2]))
       ELSE Ok(None)

\* option_vec_or_one::deserialize: deserialize_option calls visit_none on a
\* null and visit_some on any other node
OptionVecOrOne_deserialize(T, n) ==
  IF Kind(n) = "null" THEN Ok(None)
  ELSE IF IsOk(VecOrOne_deserialize(T, n))
       THEN Ok(Some(VecOrOne_deserialize(T, n)[2]))
       ELSE VecOrOne_deserialize(T, n)

\* serialize writing an empty sequence the way it writes None
OptionVecOrOne_serialize_EmptyAsNone(T, ov) ==
  IF IsSome(ov) /\ Len(ov[2]) > 0
  THEN IF Len(ov[2]) = 1 THEN Ok(EncodeElem(T, ov[2][1]))
       ELSE Ok(Arr([i \in 1..Len(ov[2]) |-> EncodeElem(T, ov[2][i])]))
  ELSE Ok(Null)

\* option_vec_or_one::serialize
OptionVecOrOne_serialize(T, ov) ==
  IF IsSome(ov)
  THEN IF Len(ov[2]) = 1 THEN Ok(EncodeElem(T, ov[2][1]))
       ELSE Ok(Arr([i \in 1..Len(ov[2]) |-> EncodeElem(T, ov[2][i])]))
  ELSE Ok(Null)

\* the derived Serialize of Outer: the field is skipped when
\* skip_serializing_if holds, and is otherwise written with the adapter
Outer_serialize(T, at, ov) ==
  IF at.skip_serializing_if /\ ~IsSome(ov)
  THEN [node |-> Map(<<>>), calls |-> {}]
  ELSE [node |-> Map(<< <<"items", OptionVecOrOne_serialize(T, ov)[2]>> >>),
        calls |-> {"option_vec_or_one::serialize"}]

\* the derived Deserialize of Outer (visit_map): the adapter decodes the
\* node under the key; a missing key takes Default::default() when the
\* field is decorated with default and is a missing-field error otherwise
Outer_deserialize(T, at, n) ==
  LET entries == Payload(n)
      idx == {i \in 1..Len(entries) : entries[i][1] = "items"}
  IN IF idx = {}
     THEN [res |-> IF at.default THEN Ok(None) ELSE Err("missing field items"),
           calls |-> {}]
     ELSE LET first == CHOOSE i \in idx : \A j \in idx : i <= j
              node == entries[first][2]
              calls == {"option_vec_or_one::deserialize"} \cup
                       (IF Kind(node) = "null" THEN {}
                        ELSE {"vec_or_one::deserialize"})
          IN IF IsErr(OptionVecOrOne_deserialize(T, node))
             THEN [res |-> OptionVecOrOne_deserialize(T, node), calls |-> calls]
             ELSE IF Cardinality(idx) > 1
             THEN [res |-> Err("duplicate field items"), calls |-> calls]
             ELSE [res |-> OptionVecOrOne_deserialize(T, node), calls |-> calls]

(***************************************************************************)
(* base64: Vec<u8> as URL-safe base64 text.  A text is a sequence of       *)
(* characters.                                                             *)
(***************************************************************************)
URL_SAFE ==
  << "A", "B", "C", "D", "E", "F", "G", "H", "I", "J", "K", "L", "M",
     "N", "O", "P", "Q", "R", "S", "T", "U", "V", "W", "X", "Y", "Z",
     "a", "b", "c", "d", "e", "f", "g", "h", "i", "j", "k", "l", "m",
     "n", "o", "p", "q", "r", "s", "t", "u", "v", "w", "x", "y", "z",
     "0", "1", "2", "3", "4", "5", "6", "7", "8", "9", "-", "_" >>

PAD == "="

\* the character of a 6-bit value
Sym(m) == URL_SAFE[m + 1]

\* the 6-bit value of a character, -1 for a character outside the alphabet
Morsel(c) ==
  IF \E i \in 1..Len(URL_SAFE) : URL_SAFE[i] = c
  THEN (CHOOSE i \in 1..Len(URL_SAFE) : URL_SAFE[i] = c) - 1
  ELSE -1

\* the inputs: bytes to encode, characters of the texts to decode
ByteSample == {0, 1, 250, 255}
TextChars == {"A", "Q", "8", "_", "=", "+"}
Bytes == SeqsUpTo(ByteSample, MaxBytes)
TextNodes ==
  {Str(t) : t \in SeqsUpTo(TextChars, MaxText)} \cup {Null, Num(7), Arr(<<>>)}

RECURSIVE encode_config(_)
\* base64::encode_config(v, base64::URL_SAFE): 3 bytes to 4 characters, the
\* last group of 1 or 2 bytes padded with = to 4 characters
encode_config(v) ==
  IF Len(v) = 0 THEN <<>>
  ELSE IF Len(v) = 1
  THEN <<Sym(v[1] \div 4), Sym((v[1] % 4) * 16), PAD, PAD>>
  ELSE IF Len(v) = 2
  THEN <<Sym(v[1] \div 4), Sym((v[1] % 4) * 16 + v[2] \div 16),
         Sym((v[2] % 16) * 4), PAD>>
  ELSE <<Sym(v[1] \div 4), Sym((v[1] % 4) * 16 + v[2] \div 16),
         Sym((v[2] % 16) * 4 + v[3] \div 64), Sym(v[3] % 64)>>
       \o encode_config(SubSeq(v, 4, Len(v)))

RECURSIVE DecodeMorsels(_)
\* the bytes of a sequence of 6-bit values: 4 values to 3 bytes, a last
\* group of 2 or 3 values to 1 or 2 bytes
DecodeMorsels(m) ==
  IF Len(m) < 2 THEN <<>>
  ELSE IF Len(m) = 2 THEN <<m[1] * 4 + m[2] \div 16>>
  ELSE IF Len(m) = 3
  THEN <<m[1] * 4 + m[2] \div 16, (m[2] % 16) * 16 + m[3] \div 4>>
  ELSE <<m[1] * 4 + m[2] \div 16, (m[2] % 16) * 16 + m[3] \div 4,
         (m[3] % 4) * 64 + m[4]>>
       \o DecodeMorsels(SubSeq(m, 5, Len(m)))

\* base64::decode_config(text, base64::URL_SAFE).  The configuration pads
\* on encoding; decoding takes the padding when it is there: a = is an
\* invalid byte in the first two places of a quad or before any other
\* character, a length of 1 modulo 4 is invalid, and the last character may
\* not carry bits beyond the last whole byte.
decode_config(t) ==
  LET n == Len(t)
      isPad(i) == t[i] = PAD
      bad(i) ==
        IF isPad(i) THEN (i - 1) % 4 < 2
        ELSE \/ \E j \in 1..(i - 1) : isPad(j)
             \/ Morsel(t[i]) = -1
      data == SelectSeq(t, LAMBDA c : c /= PAD)
      d == Len(data)
      m == [i \in 1..d |-> Morsel(data[i])]
      trailing ==
        IF d % 4 = 2 THEN m[d] % 16
        ELSE IF d % 4 = 3 THEN m[d] % 4
        ELSE 0
  IN IF n % 4 = 1 THEN Err("InvalidLength")
     ELSE IF \E i \in 1..n : bad(i) THEN Err("InvalidByte")
     ELSE IF trailing /= 0 THEN Err("InvalidLastSymbol")
     ELSE Ok(DecodeMorsels(m))

\* serialize with the unpadded configuration
Base64_serialize_NoPad(v) ==
  Ok(Str(SelectSeq(encode_config(v), LAMBDA c : c /= PAD)))

\* base64::serialize
Base64_serialize(v) == Ok(Str(encode_config(v)))

\* base64::deserialize
Base64_deserialize(n) ==
  IF IsErr(DecodeString(n)) THEN DecodeString(n)
  ELSE decode_config(DecodeString(n)[2])

(***************************************************************************)
(* string_or_struct, for T = Inner with the FromStr of the tests.          *)
(***************************************************************************)

\* impl FromStr for Inner (Err = Void: it never fails)
Inner_from_str(s) == Ok([item |-> s])

\* the visitor taking an array to the structural decoding of T as well
StringOrStruct_deserialize_AnyStruct(n) ==
  CASE Kind(n) = "str" ->
         IF IsOk(Inner_from_str(Payload(n))) THEN Ok(Inner_from_str(Payload(n))[2])
         ELSE <<"Panic", "called Result::unwrap() on an Err value">>
    [] OTHER -> DecodeInner(n)

\* string_or_struct::deserialize: deserialize_any with the visitor
\* StringOrStruct, which has visit_str and visit_map only
StringOrStruct_deserialize(n) ==
  CASE Kind(n) = "str" ->
         IF IsOk(Inner_from_str(Payload(n))) THEN Ok(Inner_from_str(Payload(n))[2])
         ELSE <<"Panic", "called Result::unwrap() on an Err value">>
    [] Kind(n) = "map" -> InnerVisitMap(Payload(n))
    [] OTHER -> Err("invalid type: expected string or map")

(***************************************************************************)
(* option_string_or_struct, and the struct Outer of its module example:    *)
(*     inner: Option<Inner>  under the adapter,  other: String             *)
(***************************************************************************)

\* the field attributes of inner: the module example names the adapter
\* alone; a declaration may add default
OptStringOrStructAttrs ==
  { [default |-> FALSE, skip_serializing_if |-> FALSE],
    [default |-> TRUE, skip_serializing_if |-> FALSE] }

\* the parent objects arriving from the wire: other is there, inner is
\* missing or holds one node
OptStringOrStructOuterNodes ==
  {Map(<< <<"other", Str("b")>> >>)} \cup
  {Map(<< <<"inner", n>>, <<"other", Str("b")>> >>) : n \in Nodes}

\* option_string_or_struct::deserialize: deserialize_option calls
\* visit_none on a null and visit_some on any other node
OptionStringOrStruct_deserialize(n) ==
  IF Kind(n) = "null" THEN Ok(None)
  ELSE IF StringOrStruct_deserialize(n)[1] = "Ok"
       THEN Ok(Some(StringOrStruct_deserialize(n)[2]))
       ELSE StringOrStruct_deserialize(n)

\* the derived Deserialize of the example Outer (visit_map): a field under
\* a with attribute that is missing from the input takes Default::default()
\* when decorated with default and is a missing-field error otherwise, also
\* when its type is an Option
OptionStringOrStruct_Outer_deserialize(at, n) ==
  LET entries == Payload(n)
      idx == {i \in 1..Len(entries) : entries[i][1] = "inner"}
      oth == {i \in 1..Len(entries) : entries[i][1] = "other"}
      inner == IF idx = {}
               THEN IF at.default THEN Ok(None) ELSE Err("missing field inner")
               ELSE OptionStringOrStruct_deserialize(
                      entries[CHOOSE i \in idx : \A j \in idx : i <= j][2])
      other == IF oth = {} THEN Err("missing field other")
               ELSE DecodeString(entries[CHOOSE i \in oth : \A j \in oth : i <= j][2])
      calls == IF idx = {} THEN {}
               ELSE {"option_string_or_struct::deserialize"}
  IN IF inner[1] /= "Ok" THEN [res |-> inner, calls |-> calls]
     ELSE IF Cardinality(idx) > 1 \/ Cardinality(oth) > 1
     THEN [res |-> Err("duplicate field"), calls |-> calls]
     ELSE IF IsErr(other) THEN [res |-> other, calls |-> calls]
     ELSE [res |-> Ok([inner |-> inner[2], other |-> other[2]]), calls |-> calls]

(***************************************************************************)
(* The state machine.                                                      *)
(***************************************************************************)
NoAttrs == [default |-> FALSE, skip_serializing_if |-> FALSE]
NoRes == <<"none">>

Init ==
  /\ pc = "idle"
  /\ adapter = "none"
  /\ ty = "none"
  /\ attrs = NoAttrs
  /\ src = "none"
  /\ val = <<>>
  /\ wire = Null
  /\ res = NoRes
  /\ invoked = {}

\* a Vec<T> field is serialized with vec_or_one::serialize
VecOrOneSerialize ==
  /\ pc = "idle"
  /\ \E T \in ElemTypes : \E v \in Vecs(T) :
       /\ pc' = "serialized"
       /\ adapter' = "vec_or_one"
       /\ ty' = T
       /\ attrs' = NoAttrs
       /\ src' = "value"
       /\ val' = v
       /\ wire' = VecOrOne_serialize(T, v)[2]
       /\ res' = NoRes
       /\ invoked' = {"vec_or_one::serialize"}

\* a node for a Vec<T> field arrives from the wire
VecOrOneInput ==
  /\ pc = "idle"
  /\ \E T \in ElemTypes : \E n \in Nodes :
       /\ pc' = "received"
       /\ adapter' = "vec_or_one"
       /\ ty' = T
       /\ attrs' = NoAttrs
       /\ src' = "wire"
       /\ val' = <<>>
       /\ wire' = n
       /\ res' = NoRes
       /\ invoked' = {}

\* the node in flight is decoded with vec_or_one::deserialize
VecOrOneDeserialize ==
  /\ adapter = "vec_or_one"
  /\ pc \in {"serialized", "received"}
  /\ pc' = "deserialized"
  /\ res' = VecOrOne_deserialize(ty, wire)
  /\ invoked' = invoked \cup {"vec_or_one::deserialize"}
  /\ UNCHANGED <<adapter, ty, attrs, src, val, wire>>

\* an Outer holding items: Option<Vec<T>> is serialized
OptionVecOrOneSerialize ==
  /\ pc = "idle"
  /\ \E T \in ElemTypes : \E at \in FieldAttrs : \E ov \in OptVecs(T) :
       /\ pc' = "serialized"
       /\ adapter' = "option_vec_or_one"
       /\ ty' = T
       /\ attrs' = at
       /\ src' = "value"
       /\ val' = ov
       /\ wire' = Outer_serialize(T, at, ov).node
       /\ res' = NoRes
       /\ invoked' = Outer_serialize(T, at, ov).calls

\* a parent object for an Outer arrives from the wire
OptionVecOrOneInput ==
  /\ pc = "idle"
  /\ \E T \in ElemTypes : \E at \in FieldAttrs : \E n \in OuterNodes :
       /\ pc' = "received"
       /\ adapter' = "option_vec_or_one"
       /\ ty' = T
       /\ attrs' = at
       /\ src' = "wire"
       /\ val' = <<>>
       /\ wire' = n
       /\ res' = NoRes
       /\ invoked' = {}

\* the parent object in flight is decoded into the field items of an Outer
OptionVecOrOneDeserialize ==
  /\ adapter = "option_vec_or_one"
  /\ pc \in {"serialized", "received"}
  /\ pc' = "deserialized"
  /\ res' = Outer_deserialize(ty, attrs, wire).res
  /\ invoked' = invoked \cup Outer_deserialize(ty, attrs, wire).calls
  /\ UNCHANGED <<adapter, ty, attrs, src, val, wire>>

\* a Vec<u8> field is serialized with base64::serialize
Base64Serialize ==
  /\ pc = "idle"
  /\ \E v \in Bytes :
       /\ pc' = "serialized"
       /\ adapter' = "base64"
       /\ ty' = "VecU8"
       /\ attrs' = NoAttrs
       /\ src' = "value"
       /\ val' = v
       /\ wire' = Base64_serialize(v)[2]
       /\ res' = NoRes
       /\ invoked' = {"base64::serialize"}

\* a node for a base64 field arrives from the wire
Base64Input ==
  /\ pc = "idle"
  /\ \E n \in TextNodes :
       /\ pc' = "received"
       /\ adapter' = "base64"
       /\ ty' = "VecU8"
       /\ attrs' = NoAttrs
       /\ src' = "wire"
       /\ val' = <<>>
       /\ wire' = n
       /\ res' = NoRes
       /\ invoked' = {}

\* the node in flight is decoded with base64::deserialize
Base64Deserialize ==
  /\ adapter = "base64"
  /\ pc \in {"serialized", "received"}
  /\ pc' = "deserialized"
  /\ res' = Base64_deserialize(wire)
  /\ invoked' = invoked \cup {"base64::deserialize"}
  /\ UNCHANGED <<adapter, ty, attrs, src, val, wire>>

\* a node for an Inner field arrives from the wire
StringOrStructInput ==
  /\ pc = "idle"
  /\ \E n \in Nodes :
       /\ pc' = "received"
       /\ adapter' = "string_or_struct"
       /\ ty' = "Inner"
       /\ attrs' = NoAttrs
       /\ src' = "wire"
       /\ val' = <<>>
       /\ wire' = n
       /\ res' = NoRes
       /\ invoked' = {}

\* the node in flight is decoded with string_or_struct::deserialize
StringOrStructDeserialize ==
  /\ adapter = "string_or_struct"
  /\ pc = "received"
  /\ pc' = "deserialized"
  /\ res' = StringOrStruct_deserialize(wire)
  /\ invoked' = invoked \cup {"string_or_struct::deserialize"}
  /\ UNCHANGED <<adapter, ty, attrs, src, val, wire>>

\* a parent object for the example Outer arrives from the wire
OptionStringOrStructInput ==
  /\ pc = "idle"
  /\ \E at \in OptStringOrStructAttrs : \E n \in OptStringOrStructOuterNodes :
       /\ pc' = "received"
       /\ adapter' = "option_string_or_struct"
       /\ ty' = "Inner"
       /\ attrs' = at
       /\ src' = "wire"
       /\ val' = <<>>
       /\ wire' = n
       /\ res' = NoRes
       /\ invoked' = {}

\* the parent object in flight is decoded into the example Outer
OptionStringOrStructDeserialize ==
  /\ adapter = "option_string_or_struct"
  /\ pc = "received"
  /\ pc' = "deserialized"
  /\ res' = OptionStringOrStruct_Outer_deserialize(attrs, wire).res
  /\ invoked' = invoked \cup OptionStringOrStruct_Outer_deserialize(attrs, wire).calls
  /\ UNCHANGED <<adapter, ty, attrs, src, val, wire>>

\* the call returns; nothing persists between calls
Return ==
  /\ pc \in {"serialized", "deserialized"}
  /\ pc' = "idle"
  /\ adapter' = "none"
  /\ ty' = "none"
  /\ attrs' = NoAttrs
  /\ src' = "none"
  /\ val' = <<>>
  /\ wire' = Null
  /\ res' = NoRes
  /\ invoked' = {}

Next ==
  \/ VecOrOneSerialize
  \/ VecOrOneInput
  \/ VecOrOneDeserialize
  \/ OptionVecOrOneSerialize
  \/ OptionVecOrOneInput
  \/ OptionVecOrOneDeserialize
  \/ Base64Serialize
  \/ Base64Input
  \/ Base64Deserialize
  \/ StringOrStructInput
  \/ StringOrStructDeserialize
  \/ OptionStringOrStructInput
  \/ OptionStringOrStructDeserialize
  \/ Return

Spec == Init /\ [][Next]_vars

(***************************************************************************)
(* Properties of vec_or_one.                                               *)
(***************************************************************************)
VecRoundTripped ==
  adapter = "vec_or_one" /\ pc = "deserialized" /\ src = "value"

\* every sub-node of array node n decodes as a T
AllDecode(T, n) == \A i \in 1..Len(Payload(n)) : IsOk(DecodeElem(T, Payload(n)[i]))

\* C1 as stated: for every single element e of every element type,
\* deserialize(serialize([e])) is exactly [e].
C1_ScalarRoundTripAnyElement ==
  (VecRoundTripped /\ Len(val) = 1) => (IsOk(res) /\ res[2] = val)

\* C1, amended: for every single element e whose own encoding is not an
\* array all of whose sub-nodes decode as elements,
\* deserialize(serialize([e])) is exactly [e].
C1_ScalarRoundTrip ==
  (/\ VecRoundTripped
   /\ Len(val) = 1
   /\ ~(IsArr(EncodeElem(ty, val[1])) /\ AllDecode(ty, EncodeElem(ty, val[1]))))
  => (IsOk(res) /\ res[2] = val)

C1_Witness ==
  /\ VecRoundTripped
  /\ Len(val) = 1
  /\ IsArr(wire)
  /\ ~AllDecode(ty, wire)
  /\ IsOk(res)
  /\ res[2] = val

\* C2: a sequence s of length >= 2 is serialized as an array node, and
\* deserializing that node yields s: same elements, same order.
C2_SequenceRoundTrip ==
  (adapter = "vec_or_one" /\ src = "value" /\ Len(val) >= 2)
  => /\ IsArr(wire)
     /\ Len(Payload(wire)) = Len(val)
     /\ pc = "deserialized" => (IsOk(res) /\ res[2] = val)

C2_Witness ==
  /\ VecRoundTripped
  /\ Len(val) = 3
  /\ val[1] /= val[2]
  /\ val[2] /= val[3]
  /\ IsOk(res)
  /\ res[2] = val

\* C3 as stated: a 1-element sequence is serialized as the encoding of its
\* sole element, which is scalar-shaped and never a 1-element array; any
\* other sequence is serialized as the array of the encodings, in order.
C3_CollapseAlwaysScalar ==
  (adapter = "vec_or_one" /\ pc = "serialized")
  => IF Len(val) = 1
     THEN /\ wire = EncodeElem(ty, val[1])
          /\ ~IsArr(wire)
     ELSE wire = Arr([i \in 1..Len(val) |-> EncodeElem(ty, val[i])])

\* C3, amended: a 1-element sequence is serialized as exactly the encoding
\* of its sole element, never as the 1-element array wrapping that encoding,
\* and scalar-shaped whenever the encoding of the element is not itself an
\* array; any other sequence is serialized as the array of the encodings of
\* its elements, in order.
C3_Collapse ==
  (adapter = "vec_or_one" /\ pc = "serialized")
  => IF Len(val) = 1
     THEN /\ wire = EncodeElem(ty, val[1])
          /\ wire /= Arr(<<EncodeElem(ty, val[1])>>)
          /\ ty \in {"Inner", "String"} => ~IsArr(wire)
     ELSE /\ IsArr(wire)
          /\ Len(Payload(wire)) = Len(val)
          /\ \A i \in 1..Len(val) : Payload(wire)[i] = EncodeElem(ty, val[i])

C3_Witness ==
  /\ adapter = "vec_or_one"
  /\ pc = "serialized"
  /\ Len(val) = 1
  /\ ty = "VecU8"
  /\ wire = Arr(<<Num(7)>>)

\* C4 as stated: whenever deserialize succeeds on an array node, the result
\* has the length of the array and its i-th element is the decoding of the
\* i-th sub-node, for every element type.
C4_ArrayElementwiseAlways ==
  (adapter = "vec_or_one" /\ pc = "deserialized" /\ IsArr(wire) /\ IsOk(res))
  => /\ Len(res[2]) = Len(Payload(wire))
     /\ \A i \in 1..Len(Payload(wire)) :
          DecodeElem(ty, Payload(wire)[i]) = Ok(res[2][i])

\* C4, amended: whenever deserialize succeeds on an array node, either
\* every sub-node decodes as an element, and the result has the length of
\* the array with the decoding of the i-th sub-node as its i-th element; or
\* some sub-node does not decode as an element, and the result is the
\* 1-element sequence holding the decoding of the whole array as one element.
C4_ArrayElementwise ==
  (adapter = "vec_or_one" /\ pc = "deserialized" /\ IsArr(wire) /\ IsOk(res))
  => IF AllDecode(ty, wire)
     THEN /\ Len(res[2]) = Len(Payload(wire))
          /\ \A i \in 1..Len(Payload(wire)) :
               DecodeElem(ty, Payload(wire)[i]) = Ok(res[2][i])
     ELSE /\ IsOk(DecodeElem(ty, wire))
          /\ res[2] = <<DecodeElem(ty, wire)[2]>>

C4_Witness ==
  /\ adapter = "vec_or_one"
  /\ pc = "deserialized"
  /\ src = "wire"
  /\ ty = "VecU8"
  /\ IsArr(wire)
  /\ Len(Payload(wire)) = 2
  /\ IsOk(res)
  /\ Len(res[2]) = 2
  /\ res[2][1] /= res[2][2]

\* C5: a node that is not an array and decodes as one element e is
\* deserialized to the 1-element sequence [e].
C5_SingleNode ==
  (/\ adapter = "vec_or_one"
   /\ pc = "deserialized"
   /\ ~IsArr(wire)
   /\ IsOk(DecodeElem(ty, wire)))
  => /\ IsOk(res)
     /\ Len(res[2]) = 1
     /\ res[2][1] = DecodeElem(ty, wire)[2]

C5_Witness ==
  /\ adapter = "vec_or_one"
  /\ pc = "deserialized"
  /\ src = "wire"
  /\ ty = "Inner"
  /\ Kind(wire) = "map"
  /\ Len(Payload(wire)) = 2
  /\ res = Ok(<<[item |-> "a"]>>)

(***************************************************************************)
(* Properties of option_vec_or_one.                                        *)
(***************************************************************************)
HasKey(n, k) == \E i \in 1..Len(Payload(n)) : Payload(n)[i][1] = k

\* the node under key k of map node n
Field(n, k) ==
  Payload(n)[CHOOSE i \in 1..Len(Payload(n)) : Payload(n)[i][1] = k][2]

\* C6: serializing an Outer whose field, declared with the adapter and
\* default as documented, is None writes no entry for the field: no key,
\* and so neither a null nor an empty array under it.
C6_AbsentOmitted ==
  (/\ adapter = "option_vec_or_one"
   /\ pc = "serialized"
   /\ attrs.default
   /\ ~IsSome(val))
  => ~HasKey(wire, "items")

\* C7: with the field decorated with default, decoding has three outcomes:
\* a parent without the key gives None and no deserialize function of the
\* adapters is invoked; a null under the key gives None; any other node n
\* under the key gives Some(v) when vec_or_one::deserialize(n) is Ok(v) and
\* an error when it is an error.
C7_OptionalDecode ==
  (adapter = "option_vec_or_one" /\ pc = "deserialized" /\ attrs.default)
  => IF ~HasKey(wire, "items")
     THEN /\ res = Ok(None)
          /\ "option_vec_or_one::deserialize" \notin invoked
          /\ "vec_or_one::deserialize" \notin invoked
     ELSE IF Kind(Field(wire, "items")) = "null"
     THEN res = Ok(None)
     ELSE IF IsOk(VecOrOne_deserialize(ty, Field(wire, "items")))
     THEN /\ IsOk(res)
          /\ IsSome(res[2])
          /\ res[2][2] = VecOrOne_deserialize(ty, Field(wire, "items"))[2]
     ELSE IsErr(res)

C7_Witness ==
  /\ adapter = "option_vec_or_one"
  /\ pc = "deserialized"
  /\ src = "wire"
  /\ attrs.default
  /\ wire = Map(<<>>)
  /\ res = Ok(None)
  /\ invoked = {}

\* C8 as stated: vec_or_one::deserialize returns an error whenever the node
\* matches neither shape or whenever some sub-node of an array node fails
\* to decode as an element; the optional variant returns an error for a
\* present node that is not null and is malformed.
C8_FailureOnAnyBadElement ==
  /\ (/\ adapter = "vec_or_one"
      /\ pc = "deserialized"
      /\ \/ ~IsArr(wire) /\ IsErr(DecodeElem(ty, wire))
         \/ IsArr(wire) /\ ~AllDecode(ty, wire))
     => IsErr(res)
  /\ (/\ adapter = "option_vec_or_one"
      /\ pc = "deserialized"
      /\ HasKey(wire, "items")
      /\ Kind(Field(wire, "items")) /= "null"
      /\ IsErr(VecOrOne_deserialize(ty, Field(wire, "items"))))
     => IsErr(res)

\* C8, amended: vec_or_one::deserialize returns an error exactly when the
\* node is not an array whose sub-nodes all decode as elements and the whole
\* node does not decode as one element either; an array node with a
\* sub-node that fails to decode is still accepted when the whole array
\* decodes as one element.  A result is never shortened: it is the
\* element-wise decoding of the whole array or the 1-element sequence of
\* the whole node.  The optional variant returns an error, never None or
\* another default, for a present node that is not null and on which
\* vec_or_one::deserialize fails.
C8_FailureIsTotal ==
  /\ (adapter = "vec_or_one" /\ pc = "deserialized")
     => /\ IsErr(res) <=> /\ ~(IsArr(wire) /\ AllDecode(ty, wire))
                          /\ IsErr(DecodeElem(ty, wire))
        /\ (IsOk(res) /\ IsArr(wire))
           => \/ AllDecode(ty, wire) /\ Len(res[2]) = Len(Payload(wire))
              \/ /\ ~AllDecode(ty, wire)
                 /\ IsOk(DecodeElem(ty, wire))
                 /\ res[2] = <<DecodeElem(ty, wire)[2]>>
  /\ (/\ adapter = "option_vec_or_one"
      /\ pc = "deserialized"
      /\ HasKey(wire, "items")
      /\ Kind(Field(wire, "items")) /= "null"
      /\ ~(IsArr(Field(wire, "items")) /\ AllDecode(ty, Field(wire, "items")))
      /\ IsErr(DecodeElem(ty, Field(wire, "items"))))
     => IsErr(res)

C8_Witness ==
  /\ adapter = "vec_or_one"
  /\ pc = "deserialized"
  /\ ty = "String"
  /\ wire = Arr(<<Str("a"), Num(7)>>)
  /\ IsErr(res)

(***************************************************************************)
(* Properties of base64.                                                   *)
(***************************************************************************)
InAlphabet(c) == Morsel(c) /= -1

\* text t is padded URL-safe base64: whole quads of characters of the
\* alphabet, the last quad ending in at most two =
ValidPadded(t) ==
  /\ Len(t) % 4 = 0
  /\ \A i \in 1..Len(t) :
       \/ InAlphabet(t[i])
       \/ /\ t[i] = PAD
          /\ i > Len(t) - 2
          /\ \A j \in i..Len(t) : t[j] = PAD

\* text t is text u without some, or all, of the = that end u
PadsDropped(t, u) ==
  /\ Len(t) <= Len(u)
  /\ \A i \in 1..Len(t) : t[i] = u[i]
  /\ \A i \in (Len(t) + 1)..Len(u) : u[i] = PAD

\* the round trip of serialize, as C9 states it and as it holds
C9_RoundTripPart ==
  (adapter = "base64" /\ src = "value" /\ pc \in {"serialized", "deserialized"})
  => /\ Kind(wire) = "str"
     /\ Len(Payload(wire)) % 4 = 0
     /\ ValidPadded(Payload(wire))
     /\ Len(Payload(wire)) = 4 * ((Len(val) + 2) \div 3)
     /\ pc = "deserialized" => (IsOk(res) /\ res[2] = val)

C10_StringOrStructDispatch ==
  (adapter = "string_or_struct" /\ pc = "deserialized")
  => /\ res[1] \in {"Ok", "Err"}
     /\ CASE Kind(wire) = "str" -> res = Ok([item |-> Payload(wire)])
          [] Kind(wire) = "map" -> res = DecodeElem("Inner", wire)
          [] OTHER -> IsErr(res)

C10_Witness ==
  /\ adapter = "string_or_struct"
  /\ pc = "deserialized"
  /\ wire = Arr(<<Str("a")>>)
  /\ IsOk(DecodeElem("Inner", wire))
  /\ IsErr(res)

(***************************************************************************)
(* Properties of option_string_or_struct.                                  *)
(***************************************************************************)

\* C11: with the field declared as in the module example (the adapter, no
\* default), a parent without the key decodes with the field None, a text
\* under the key gives Some(from_str(text)), and a map under the key gives
\* Some of the structural decoding of the map.
C11_ExampleDecodes ==
  (/\ adapter = "option_string_or_struct"
   /\ pc = "deserialized"
   /\ ~attrs.default)
  => IF ~HasKey(wire, "inner")
     THEN IsOk(res) /\ res[2].inner = None
     ELSE IF Kind(Field(wire, "inner")) = "str"
     THEN IsOk(res) /\ res[2].inner = Some([item |-> Payload(Field(wire, "inner"))])
     ELSE IF Kind(Field(wire, "inner")) = "map"
               /\ IsOk(DecodeElem("Inner", Field(wire, "inner")))
     THEN IsOk(res)
          /\ res[2].inner = Some(DecodeElem("Inner", Field(wire, "inner"))[2])
     ELSE TRUE

(***************************************************************************)
(* The empty sequence.                                                     *)
(***************************************************************************)

\* C12: vec_or_one serializes the empty sequence as the array node of
\* length 0, which deserializes to the empty sequence; option_vec_or_one
\* serializes Some of the empty sequence as the array node of length 0 under
\* the key (not a null, and the key is there), and an array node of length
\* 0 under the key deserializes to Some of the empty sequence, never None.
C12_EmptyIsNotAbsent ==
  /\ (adapter = "vec_or_one" /\ src = "value" /\ Len(val) = 0)
     => /\ wire = Arr(<<>>)
        /\ pc = "deserialized" => (IsOk(res) /\ Len(res[2]) = 0)
  /\ (adapter = "option_vec_or_one" /\ src = "value" /\ IsSome(val)
        /\ Len(val[2]) = 0)
     => /\ HasKey(wire, "items")
        /\ Field(wire, "items") = Arr(<<>>)
  /\ (adapter = "option_vec_or_one" /\ pc = "deserialized"
        /\ HasKey(wire, "items") /\ IsArr(Field(wire, "items"))
        /\ Len(Payload(Field(wire, "items"))) = 0)
     => /\ IsOk(res)
        /\ IsSome(res[2])
        /\ Len(res[2][2]) = 0

C12_Witness ==
  /\ adapter = "option_vec_or_one"
  /\ pc = "deserialized"
  /\ src = "value"
  /\ attrs.skip_serializing_if
  /\ IsSome(val)
  /\ Len(val[2]) = 0
  /\ Field(wire, "items") = Arr(<<>>)
  /\ res = Ok(Some(<<>>))

====
